---- MODULE Spec2Model ----
(***************************************************************************)
(* A model of flac-tracksplit: the cue loop and Track::write_audio of      *)
(* examples/split_file.rs (one input file split into per-track files) and  *)
(* the parallel driver of src/main.rs (several input files).               *)
(*                                                                         *)
(* Strings are sequences of one-character strings.  A tag key is a record  *)
(* [name, idx]: idx = 0 is the bare key NAME, idx = n > 0 is "NAME[n]".    *)
(* Filesystem calls (create_dir_all, File::create, write_all) and          *)
(* OffsetFrame::process are taken to succeed: the packets come from a      *)
(* reader that has already parsed their frame headers.                     *)
(***************************************************************************)
EXTENDS Integers, Sequences, FiniteSets, TLC

\* ------------------------------------------------------------------ bounds
MaxCues == 3
MaxTs == 3
MaxDur == 2
NumFiles == 3

\* ------------------------------------------------------- program constants
LEAD_OUT_TRACK_NUMBER == 170

VARIABLES
    cues,       \* reader.cues(): sequence of [index, start_ts]
    last_ts,    \* info.total_samples
    packets,    \* what reader.next_packet() will return, in order: [ts, dur]
    tags,       \* the file's tags: sequence of [key, value]
    pc,         \* "cue_loop" | "write_audio" | "done" | "failed"
    failure,    \* "none" | "eof" | "assert" | "overflow"
    ci,         \* number of cues cue_iter has yielded
    tracks,     \* the Track values built so far, in order
    sinks,      \* sinks[i]: packets written to track i's File, in order
    open,       \* indices of tracks whose File is open
    opened,     \* for each File created, in order, the position of its cue in cues
    pos,        \* number of packets next_packet has returned
    last_end,   \* write_audio's last_end
    fileState,  \* main.rs: per input path "pending"|"running"|"ok"|"err"|"skipped"
    fileFails,  \* main.rs: the input paths on which split_one_file returns Err
    full,       \* main.rs: try_for_each has seen an Err
    run         \* main.rs: "running" | "success" | "panic"

splitVars == <<cues, last_ts, packets, tags, pc, failure, ci, tracks, sinks,
               open, opened, pos, last_end>>
runVars == <<fileState, fileFails, full, run>>
vars == <<cues, last_ts, packets, tags, pc, failure, ci, tracks, sinks,
          open, opened, pos, last_end, fileState, fileFails, full, run>>

\* ----------------------------------------------------------------- strings
Digits == <<"0", "1", "2", "3", "4", "5", "6", "7", "8", "9">>

IsDigit(c) == \E d \in 1..10 : Digits[d] = c

DigitVal(c) == (CHOOSE d \in 1..10 : Digits[d] = c) - 1

RECURSIVE DigitsVal(_)
DigitsVal(s) ==
    IF s = <<>> THEN 0
    ELSE 10 * DigitsVal(SubSeq(s, 1, Len(s) - 1)) + DigitVal(s[Len(s)])

\* <usize as FromStr>::from_str: an optional "+", then one or more ASCII
\* digits; anything else is Err, here -1.
ParseUsize(s) ==
    LET body == IF s # <<>> /\ s[1] = "+" THEN Tail(s) ELSE s
    IN  IF body # <<>> /\ \A i \in 1..Len(body) : IsDigit(body[i])
        THEN DigitsVal(body)
        ELSE -1

RECURSIVE Decimal(_)
Decimal(n) ==
    IF n < 10 THEN <<Digits[n + 1]>>
    ELSE Decimal(n \div 10) \o <<Digits[(n % 10) + 1]>>

\* format!("{:02}", n)
Format02(n) == IF n < 10 THEN <<"0">> \o Decimal(n) ELSE Decimal(n)

\* ------------------------------------------------------------------- paths
\* std::path::is_separator on the platforms the tool is built for
is_separator(c) == c = "/"

\* Track::sanitize_pathname: every separator becomes "_"
sanitize_pathname(name) ==
    [i \in 1..Len(name) |-> IF is_separator(name[i]) THEN "_" ELSE name[i]]

\* PathBuf::push: an absolute component replaces the buffer, any other is
\* appended after a separator.
PathPush(buf, comp) ==
    IF comp # <<>> /\ is_separator(comp[1]) THEN comp
    ELSE IF buf = <<>> THEN comp
    ELSE IF is_separator(buf[Len(buf)]) THEN buf \o comp
    ELSE buf \o <<"/">> \o comp

\* Path::components: the path split at separators, empty parts dropped; two
\* paths name the same file when their components agree.
RECURSIVE SplitAtSeparators(_, _)
SplitAtSeparators(p, part) ==
    IF p = <<>> THEN (IF part = <<>> THEN <<>> ELSE <<part>>)
    ELSE IF is_separator(p[1])
         THEN (IF part = <<>> THEN <<>> ELSE <<part>>) \o SplitAtSeparators(Tail(p), <<>>)
         ELSE SplitAtSeparators(Tail(p), Append(part, p[1]))

PathComponents(p) ==
    [absolute |-> p # <<>> /\ is_separator(p[1]), parts |-> SplitAtSeparators(p, <<>>)]

\* -------------------------------------------------------------------- tags
Key(name, idx) == [name |-> name, idx |-> idx]

\* Track::interesting_tag: the key does not end in "]" and is neither
\* CUESHEET nor LOG.
interesting_tag(key) ==
    key.idx = 0 /\ key.name # "CUESHEET" /\ key.name # "LOG"

\* The filter_map of Track::from_tags: a key ending in "[index]" loses the
\* suffix, an interesting key is kept as it is, any other tag is dropped.
RECURSIVE FilterTags(_, _)
FilterTags(index, ftags) ==
    IF ftags = <<>> THEN <<>>
    ELSE LET tag == Head(ftags)
             rest == FilterTags(index, Tail(ftags))
         IN  IF tag.key.idx = index
             THEN <<[key |-> Key(tag.key.name, 0), value |-> tag.value]>> \o rest
             ELSE IF interesting_tag(tag.key)
                  THEN <<tag>> \o rest
                  ELSE rest

\* Track::tag_value: the value of the first tag with that key, <<"none">>
\* when there is none (no tag value holds a multi-character element).
NoValue == <<"none">>

tag_value(ttags, name) ==
    IF \E i \in 1..Len(ttags) : ttags[i].key = Key(name, 0)
    THEN ttags[CHOOSE i \in 1..Len(ttags) :
                   /\ ttags[i].key = Key(name, 0)
                   /\ \A j \in 1..(i - 1) : ttags[j].key # Key(name, 0)].value
    ELSE NoValue

S_UnknownArtist == <<"U", "n", "k", "n", "o", "w", "n", " ", "A", "r", "t", "i", "s", "t">>
S_UnknownAlbum == <<"U", "n", "k", "n", "o", "w", "n", " ", "A", "l", "b", "u", "m">>
S_Flac == <<".", "f", "l", "a", "c">>

\* Track::pathname
pathname(ttags) ==
    LET albumartist == tag_value(ttags, "ALBUMARTIST")
        artist == tag_value(ttags, "ARTIST")
        album == tag_value(ttags, "ALBUM")
        year == tag_value(ttags, "DATE")
        track == tag_value(ttags, "TRACKNUMBER")
        title == tag_value(ttags, "TITLE")
        buf1 == IF albumartist # NoValue
                THEN PathPush(<<>>, sanitize_pathname(albumartist))
                ELSE IF artist # NoValue
                     THEN PathPush(<<>>, sanitize_pathname(artist))
                     ELSE PathPush(<<>>, S_UnknownArtist)
        buf2 == IF album # NoValue
                THEN IF year # NoValue
                     THEN PathPush(buf1, year \o <<" ", "-", " ">> \o sanitize_pathname(album))
                     ELSE PathPush(buf1, sanitize_pathname(album))
                ELSE PathPush(buf1, S_UnknownAlbum)
    IN  IF track # NoValue /\ title # NoValue
        THEN IF ParseUsize(track) >= 0
             THEN PathPush(buf2, Format02(ParseUsize(track)) \o <<".">>
                                 \o sanitize_pathname(title) \o S_Flac)
             ELSE PathPush(buf2, <<"9", "9", ".">> \o sanitize_pathname(title) \o S_Flac)
        ELSE buf2

\* ------------------------------------------------------------ the cue loop
\* EndTs with the lead-out arm of the match left out: the lead-out is
\* treated as one more track.
EndTsWithoutLeadOutArm(cs, i, total) ==
    IF i + 1 > Len(cs) THEN [end_ts |-> total, taken |-> 1]
    ELSE [end_ts |-> cs[i + 1].start_ts, taken |-> 1]

\* The match on cue_iter.peek() in main: the end of the track that starts at
\* cue i, and how many cues the iteration takes from cue_iter.
EndTs(cs, i, total) ==
    IF i + 1 > Len(cs) THEN [end_ts |-> total, taken |-> 1]
    ELSE IF cs[i + 1].index = LEAD_OUT_TRACK_NUMBER
         THEN [end_ts |-> cs[i + 1].start_ts, taken |-> 2]
         ELSE [end_ts |-> cs[i + 1].start_ts, taken |-> 1]

\* Track::from_tags.  total_samples is end_ts - cue.start_ts in u64: a
\* negative d stands for the wrapped value 2^64 + d of a release build.
from_tags(cue, end_ts, ftags) ==
    [number |-> cue.index,
     start_ts |-> cue.start_ts,
     end_ts |-> end_ts,
     total_samples |-> end_ts - cue.start_ts,
     tags |-> FilterTags(cue.index, ftags)]

\* SinkWrite on a File that is written from its start each time
SinkWriteFromStart(sink, packet) == <<packet>>

\* to.write_all(&updated_buf) in write_audio
SinkWrite(sink, packet) == Append(sink, packet)

\* write_audio's test for the end of the track
TrackEnded(lastEnd, track) == lastEnd >= track.end_ts

\* CloseSink on a File that outlives its iteration
CloseSinkKeptOpen(files, i) == files

\* the File of an iteration is dropped when the iteration ends
CloseSink(files, i) == files \ {i}

\* ----------------------------------------------------------------- inputs
\* Cue lists: the k-th cue is track k or the lead-out, at any sample.
CueLists ==
    UNION {{cs \in [1..n -> [index : (1..MaxCues) \cup {LEAD_OUT_TRACK_NUMBER},
                             start_ts : 0..MaxTs]] :
                \A k \in 1..n : cs[k].index \in {k, LEAD_OUT_TRACK_NUMBER}} :
           n \in 0..MaxCues}

RECURSIVE SumTo(_, _)
SumTo(durs, n) == IF n = 0 THEN 0 ELSE SumTo(durs, n - 1) + durs[n]

\* Packet streams: frames one after the other from sample 0, each of 1 to
\* MaxDur samples, ending at sample MaxTs + 1 at the latest, so that streams
\* shorter than, as long as and longer than total_samples all occur.
PacketStreams ==
    UNION {{[i \in 1..n |-> [ts |-> SumTo(durs, i - 1), dur |-> durs[i]]] :
                durs \in {d \in [1..n -> 1..MaxDur] : SumTo(d, n) <= MaxTs + 1}} :
           n \in 0..(MaxTs + 1)}

Tag(name, idx, value) == [key |-> Key(name, idx), value |-> value]

\* The tags of an ordinary album with two titled tracks.
AlbumTags ==
    <<Tag("CUESHEET", 0, <<"c">>), Tag("ARTIST", 0, <<"A">>), Tag("ALBUM", 0, <<"L">>),
      Tag("TITLE", 1, <<"t">>), Tag("TRACKNUMBER", 1, <<"1">>),
      Tag("TITLE", 2, <<"u">>), Tag("TRACKNUMBER", 2, <<"2">>)>>

Files == 1..NumFiles

SplitIdle ==
    /\ pc = "cue_loop"
    /\ failure = "none"
    /\ ci = 0
    /\ tracks = <<>>
    /\ sinks = <<>>
    /\ open = {}
    /\ opened = <<>>
    /\ pos = 0
    /\ last_end = 0

RunIdle ==
    /\ fileState = [f \in Files |-> "pending"]
    /\ fileFails = {}
    /\ full = FALSE
    /\ run = "running"

Init ==
    /\ cues \in CueLists
    /\ last_ts \in 0..MaxTs
    /\ packets \in PacketStreams
    /\ tags = AlbumTags
    /\ SplitIdle
    /\ RunIdle

\* ------------------------------------------------- split_file.rs: actions
cur == Len(tracks)

\* One iteration of the cue loop up to the call of write_audio: the end of
\* the track, Track::from_tags, File::create, write_metadata.
OpenTrack ==
    /\ pc = "cue_loop"
    /\ ci < Len(cues)
    /\ LET e == EndTs(cues, ci + 1, last_ts)
           track == from_tags(cues[ci + 1], e.end_ts, tags)
       IN  /\ ci' = ci + e.taken
           /\ tracks' = Append(tracks, track)
           /\ sinks' = Append(sinks, <<>>)
           /\ open' = open \cup {Len(tracks) + 1}
           /\ opened' = Append(opened, ci + 1)
    /\ last_end' = 0
    /\ pc' = "write_audio"
    /\ UNCHANGED <<cues, last_ts, packets, tags, failure, pos>>
    /\ UNCHANGED runVars

\* end_ts - cue.start_ts below zero: a build with overflow checks panics in
\* from_tags (a build without them goes on, see OpenTrack).
SubtractOverflow ==
    /\ pc = "cue_loop"
    /\ ci < Len(cues)
    /\ EndTs(cues, ci + 1, last_ts).end_ts < cues[ci + 1].start_ts
    /\ pc' = "failed"
    /\ failure' = "overflow"
    /\ UNCHANGED <<cues, last_ts, packets, tags, ci, tracks, sinks, open, opened,
                   pos, last_end>>
    /\ UNCHANGED runVars

\* cue_iter.next() returns None: main returns.
LoopExit ==
    /\ pc = "cue_loop"
    /\ ci >= Len(cues)
    /\ pc' = "done"
    /\ UNCHANGED <<cues, last_ts, packets, tags, failure, ci, tracks, sinks, open,
                   opened, pos, last_end>>
    /\ UNCHANGED runVars

\* One iteration of write_audio's loop on a packet that passes the
\* assertion: the frame is written; at the end of the track write_audio
\* returns and the iteration of the cue loop ends, dropping the File.
WritePacket ==
    /\ pc = "write_audio"
    /\ pos < Len(packets)
    /\ LET packet == packets[pos + 1]
           track == tracks[cur]
       IN  /\ packet.ts >= track.start_ts
           /\ sinks' = [sinks EXCEPT ![cur] = SinkWrite(@, packet)]
           /\ last_end' = packet.ts + packet.dur
           /\ IF TrackEnded(packet.ts + packet.dur, track)
              THEN /\ pc' = "cue_loop"
                   /\ open' = CloseSink(open, cur)
              ELSE /\ pc' = "write_audio"
                   /\ open' = open
    /\ pos' = pos + 1
    /\ UNCHANGED <<cues, last_ts, packets, tags, failure, ci, tracks, opened>>
    /\ UNCHANGED runVars

\* ma::assert_ge!(ts, self.start_ts) fails: the packet is not written and
\* the panic unwinds main.
AssertFails ==
    /\ pc = "write_audio"
    /\ pos < Len(packets)
    /\ packets[pos + 1].ts < tracks[cur].start_ts
    /\ pos' = pos + 1
    /\ pc' = "failed"
    /\ failure' = "assert"
    /\ open' = {}
    /\ UNCHANGED <<cues, last_ts, packets, tags, ci, tracks, sinks, opened, last_end>>
    /\ UNCHANGED runVars

\* next_packet() returns Err at the end of the stream: write_audio returns
\* it and main's expect("writing track") panics.
EndOfStream ==
    /\ pc = "write_audio"
    /\ pos >= Len(packets)
    /\ pc' = "failed"
    /\ failure' = "eof"
    /\ open' = {}
    /\ UNCHANGED <<cues, last_ts, packets, tags, ci, tracks, sinks, opened, pos,
                   last_end>>
    /\ UNCHANGED runVars

Next ==
    \/ OpenTrack
    \/ SubtractOverflow
    \/ LoopExit
    \/ WritePacket
    \/ AssertFails
    \/ EndOfStream

Spec == Init /\ [][Next]_vars

\* ------------------------------------------------ a file's tags as inputs
OptTag(name, idx, values) == {<<>>} \cup {<<Tag(name, idx, v)>> : v \in values}

TitleValues == {<<"t">>, <<"t", "/">>, <<"t", "_">>}
NumberValues == {<<"1">>, <<"0", "1">>, <<"x">>}

TagSets ==
    {<<Tag("CUESHEET", 0, <<"c">>)>> \o aa \o ar \o al \o da \o t1 \o n1 \o t2 \o n2 :
        aa \in OptTag("ALBUMARTIST", 0, {<<"B">>}),
        ar \in OptTag("ARTIST", 0, {<<"A">>}),
        al \in OptTag("ALBUM", 0, {<<"L">>}),
        da \in OptTag("DATE", 0, {<<"1">>}),
        t1 \in OptTag("TITLE", 1, TitleValues),
        n1 \in OptTag("TRACKNUMBER", 1, NumberValues),
        t2 \in OptTag("TITLE", 2, TitleValues),
        n2 \in OptTag("TRACKNUMBER", 2, NumberValues)}

\* One file of two tracks with any of the tag sets, over a stream of
\* MaxTs one-sample frames.
InitTags ==
    /\ cues \in {cs \in CueLists : /\ Len(cs) = 2
                                   /\ \A k \in 1..2 : cs[k].index = k
                                   /\ cs[1].start_ts <= 1}
    /\ last_ts = MaxTs
    /\ packets = [i \in 1..MaxTs |-> [ts |-> i - 1, dur |-> 1]]
    /\ tags \in TagSets
    /\ SplitIdle
    /\ RunIdle

SpecTags == InitTags /\ [][Next]_vars

\* ------------------------------------------------------ main.rs: actions
\* args.paths.into_par_iter().try_for_each(..): a worker takes a path that
\* no worker has taken, unless an Err has been seen.
StartFile(f) ==
    /\ run = "running"
    /\ fileState[f] = "pending"
    /\ ~full
    /\ fileState' = [fileState EXCEPT ![f] = "running"]
    /\ UNCHANGED <<fileFails, full, run>>
    /\ UNCHANGED splitVars

\* try_for_each stops handing out paths once an Err has been seen: the
\* closure is never called on the paths that are left.
SkipFile(f) ==
    /\ run = "running"
    /\ fileState[f] = "pending"
    /\ full
    /\ fileState' = [fileState EXCEPT ![f] = "skipped"]
    /\ UNCHANGED <<fileFails, full, run>>
    /\ UNCHANGED splitVars

\* split_one_file(&path, base_path) returns Ok or Err.
FinishFile(f) ==
    /\ run = "running"
    /\ fileState[f] = "running"
    /\ IF f \in fileFails
       THEN /\ fileState' = [fileState EXCEPT ![f] = "err"]
            /\ full' = TRUE
       ELSE /\ fileState' = [fileState EXCEPT ![f] = "ok"]
            /\ full' = full
    /\ UNCHANGED <<fileFails, run>>
    /\ UNCHANGED splitVars

\* try_for_each returns; .expect("Error splitting the given files") panics
\* on an Err.
JoinRun ==
    /\ run = "running"
    /\ \A f \in Files : fileState[f] \in {"ok", "err", "skipped"}
    /\ run' = IF \E f \in Files : fileState[f] = "err" THEN "panic" ELSE "success"
    /\ UNCHANGED <<fileState, fileFails, full>>
    /\ UNCHANGED splitVars

InitRun ==
    /\ fileState = [f \in Files |-> "pending"]
    /\ fileFails \in SUBSET Files
    /\ full = FALSE
    /\ run = "running"
    /\ cues = <<>>
    /\ last_ts = 0
    /\ packets = <<>>
    /\ tags = <<>>
    /\ SplitIdle

NextRun ==
    \/ \E f \in Files : StartFile(f)
    \/ \E f \in Files : SkipFile(f)
    \/ \E f \in Files : FinishFile(f)
    \/ JoinRun

SpecRun == InitRun /\ [][NextRun]_vars

\* ------------------------------------------------------ claim vocabulary
IsLeadOut(cue) == cue.index = LEAD_OUT_TRACK_NUMBER

StrictlyIncreasing(cs) ==
    \A i, j \in 1..Len(cs) : i < j => cs[i].start_ts < cs[j].start_ts

\* the lead-out cue, if there is one, is the last cue
LeadOutOnlyLast(cs) == \A i \in 1..(Len(cs) - 1) : ~IsLeadOut(cs[i])

HasLeadOut(cs) == \E i \in 1..Len(cs) : IsLeadOut(cs[i])

\* strictly increasing, lead-out last if present
ValidCues(cs) == StrictlyIncreasing(cs) /\ LeadOutOnlyLast(cs)

\* the sample at which the packet stream ends
StreamEnd(ps) == IF ps = <<>> THEN 0 ELSE ps[Len(ps)].ts + ps[Len(ps)].dur

RECURSIVE Flatten(_)
Flatten(ss) == IF ss = <<>> THEN <<>> ELSE Head(ss) \o Flatten(Tail(ss))

Terminal == pc \in {"done", "failed"}

\* ------------------------------------------------------------------- C1
C1Pre ==
    /\ cues # <<>>
    /\ ValidCues(cues)
    /\ IsLeadOut(cues[Len(cues)]) => Len(cues) >= 2
    /\ last_ts >= cues[Len(cues)].start_ts

\* C1: for a cue list with strictly increasing start_ts whose lead-out, if
\* present, is last and follows at least one track cue, and total_samples at
\* or after the last cue: the first track starts at the first cue, each
\* track ends where the next one starts, and once the cue loop has taken
\* every cue the last track ends at the lead-out's start_ts, or at
\* total_samples when there is no lead-out.
C1_SegmentationPartition ==
    C1Pre =>
        /\ tracks # <<>> => tracks[1].start_ts = cues[1].start_ts
        /\ \A i \in 1..(Len(tracks) - 1) : tracks[i].end_ts = tracks[i + 1].start_ts
        /\ (ci >= Len(cues) /\ tracks # <<>>) =>
               tracks[Len(tracks)].end_ts =
                   IF HasLeadOut(cues) THEN cues[Len(cues)].start_ts ELSE last_ts

C1_Witness ==
    /\ C1Pre
    /\ HasLeadOut(cues)
    /\ cues[Len(cues)].start_ts < last_ts
    /\ Len(tracks) = 2
    /\ pc = "done"

\* every track cue starts before total_samples: no range is empty
NonEmptyRanges ==
    \A i \in 1..Len(cues) : ~IsLeadOut(cues[i]) => cues[i].start_ts < last_ts

\* ------------------------------------------------------------------- C2
RECURSIVE TrackCueIndices(_)
TrackCueIndices(cs) ==
    IF cs = <<>> THEN <<>>
    ELSE IF IsLeadOut(Head(cs)) THEN TrackCueIndices(Tail(cs))
         ELSE <<Head(cs).index>> \o TrackCueIndices(Tail(cs))

\* C2: when the lead-out cue, if present, is the last cue (the list of the
\* lead-out alone included), no track has number 170, and once the cue loop
\* has taken every cue there is exactly one track per non-lead-out cue, in
\* cue order.
C2_LeadOutAbsorbed ==
    LeadOutOnlyLast(cues) =>
        /\ \A i \in 1..Len(tracks) : tracks[i].number # LEAD_OUT_TRACK_NUMBER
        /\ ci >= Len(cues) =>
               [i \in 1..Len(tracks) |-> tracks[i].number] = TrackCueIndices(cues)

\* ------------------------------------------------------------------- C3
C3Pre ==
    /\ C1Pre
    /\ cues[1].start_ts = 0
    /\ HasLeadOut(cues) => cues[Len(cues)].start_ts = last_ts
    /\ StreamEnd(packets) = last_ts

\* C3: for a valid cue list that starts at sample 0 and whose ranges cover
\* [0, total_samples), and a gap-free stream over [0, total_samples): the
\* sinks, taken in track order, hold exactly the packets next_packet has
\* returned so far, in their order; no packet fails the assertion; and when
\* the split stops they hold the whole input stream.
C3_NoPacketDuplicatedOrDropped ==
    C3Pre =>
        /\ Flatten(sinks) = SubSeq(packets, 1, pos)
        /\ failure # "assert"
        /\ Terminal => Flatten(sinks) = packets

C3_Witness ==
    /\ C3Pre
    /\ pc = "done"
    /\ Len(tracks) >= 2
    /\ \E k \in 1..Len(packets) :
           /\ packets[k].ts < tracks[2].start_ts
           /\ tracks[2].start_ts < packets[k].ts + packets[k].dur
    /\ sinks[2] # <<>>

\* ------------------------------------------------------------------- C4
\* C4: when the packet source reports the end of the stream while the open
\* track, of which some packet has been written, has its last_end below its
\* end_ts, the split does not fail (stated for the cue lists of C1).
C4_EndOfInputIsNotAnError ==
    C1Pre =>
        ~(/\ pc = "failed"
          /\ failure = "eof"
          /\ sinks[cur] # <<>>
          /\ last_end < tracks[cur].end_ts)

\* ------------------------------------------------------------------- C5
\* C5: when the run over several input files is over, every input file has
\* been attempted and has its own Ok or Err outcome, whatever the others did.
C5_SiblingIsolation ==
    run # "running" => \A f \in Files : fileState[f] \in {"ok", "err"}

\* ------------------------------------------------------------------- C6
MalformedCues ==
    \/ ~LeadOutOnlyLast(cues)
    \/ \E i \in 1..(Len(cues) - 1) : cues[i].start_ts >= cues[i + 1].start_ts
    \/ \E i \in 1..Len(cues) : cues[i].start_ts > last_ts

\* no track's end_ts - start_ts is below zero, so that every build of the
\* tool does the same on the cue list
NoRangeBelowZero ==
    \A i \in 1..Len(cues) : EndTs(cues, i, last_ts).end_ts >= cues[i].start_ts

\* C6: for a cue list whose lead-out is not last, or with equal or
\* decreasing start_ts, or with a start_ts beyond total_samples, the split
\* does not end in success, and no track is created for the lead-out cue or
\* for a range with start_ts >= end_ts (stated for the malformed lists on
\* which every build of the tool behaves alike).
C6_MalformedCuesRejected ==
    (MalformedCues /\ NoRangeBelowZero) =>
        /\ pc # "done"
        /\ \A i \in 1..Len(tracks) :
               /\ tracks[i].start_ts < tracks[i].end_ts
               /\ tracks[i].number # LEAD_OUT_TRACK_NUMBER

\* ------------------------------------------------------------------- C7
\* C7: the output paths of two distinct tracks of a file differ, whichever
\* of ALBUMARTIST, ARTIST, ALBUM, DATE, TRACKNUMBER and TITLE are present
\* (stated for the cue lists of C1 without an empty range).
C7_OutputPathsNeverCollide ==
    (C1Pre /\ NonEmptyRanges) =>
        \A i, j \in 1..Len(tracks) :
            i < j => PathComponents(pathname(tracks[i].tags))
                         # PathComponents(pathname(tracks[j].tags))

\* ------------------------------------------------------------------- C8
\* C8: for a valid cue list, one whose first cue starts after sample 0
\* included, and a gap-free stream from sample 0 to total_samples, the
\* assertion of write_audio never fails.
C8_NoOrderingViolation ==
    (C1Pre /\ NonEmptyRanges /\ StreamEnd(packets) = last_ts) => failure # "assert"

\* ------------------------------------------------------------------- C9
\* C9: at most one track has an open File, and it is the track being
\* written; Files are created in cue order; a track whose File is closed is
\* never opened or written again.
C9_OneOpenTrackAtATime ==
    /\ [](/\ Cardinality(open) <= 1
          /\ open \subseteq {cur}
          /\ pc = "write_audio" => open = {cur}
          /\ \A i, j \in 1..Len(opened) : i < j => opened[i] < opened[j])
    /\ [][\A i \in 1..Len(tracks) :
              i \notin open => (i \notin open' /\ sinks'[i] = sinks[i])]_vars

C9_Witness ==
    /\ Len(tracks) = 2
    /\ open = {2}
    /\ sinks[1] # <<>>
    /\ sinks[2] # <<>>

\* ------------------------------------------------------------------ C10
C10Pre ==
    /\ C1Pre
    /\ cues[1].start_ts = 0
    /\ NonEmptyRanges
    /\ StreamEnd(packets) = last_ts

\* C10: for a valid cue list from sample 0 and a gap-free stream, every
\* packet written to track i has start_ts(i) <= ts < end_ts(i).
C10_PacketsLandInTheirTrack ==
    C10Pre =>
        \A i \in 1..Len(tracks) : \A k \in 1..Len(sinks[i]) :
            /\ tracks[i].start_ts <= sinks[i][k].ts
            /\ sinks[i][k].ts < tracks[i].end_ts

====
